---------------------------- MODULE Spec2Model ----------------------------
(***************************************************************************)
(* A model of the account core of my-little-ledger (my-little-ledger.go):  *)
(* the Money type, the Account aggregate with deposit / withdraw, and the  *)
(* JSON persistence of an Account (saveToFile / readFromFile).             *)
(*                                                                         *)
(* Money is Go's int64; it is modelled as a two's-complement integer of    *)
(* MoneyBits bits so that wrap-around is reachable within the bounds.      *)
(* A file is a sequence of JSON tokens; json.Marshal and json.Unmarshal    *)
(* are modelled by what they do on those tokens.  The variables last,      *)
(* calls and saved only observe the run: what the last call returned, how  *)
(* many deposit / withdraw calls were made, which account is on disk.      *)
(***************************************************************************)
EXTENDS Integers, Sequences, FiniteSets, TLC

\* ------------------------------------------------------------------ bounds

\* Width of Money in bits (int64 in the source, scaled down).
MoneyBits == 3
\* The largest amount passed to deposit / withdraw.
MaxAmount == 2
\* Number of deposit / withdraw calls made in one run.
MaxTx == 2
\* Largest value of the wall clock (seconds).
MaxTime == 1

\* ------------------------------------------------------------------- Money

MoneyMod == 2 ^ MoneyBits
MoneyMax == 2 ^ (MoneyBits - 1) - 1
MoneyMin == - (2 ^ (MoneyBits - 1))

\* The values of type Money.
Money == MoneyMin .. MoneyMax

\* Go's integer arithmetic on Money wraps around silently.
Wrap(x) == ((x - MoneyMin) % MoneyMod) + MoneyMin

\* Money(f * 100).  The product f * 100 is given in tenths of a cent; Go's
\* conversion of a float to an integer drops the fraction (towards zero).
\* The binary rounding of the product itself is outside the model.
fToMoney(f) == IF f >= 0 THEN f \div 10 ELSE - ((- f) \div 10)

\* ----------------------------------------------------- Transaction, Account

Transaction(ts, income, expense, balance) ==
    [Timestamp |-> ts, Income |-> income, Expense |-> expense, Balance |-> balance]

\* The zero value of Transaction.
ZeroTransaction == Transaction(0, 0, 0, 0)

Account(balance, startBalance, transactions) ==
    [Balance |-> balance, StartBalance |-> startBalance, Transactions |-> transactions]

\* The zero value of Account (before createAccount has run).
ZeroAccount == Account(0, 0, << >>)

\* createAccount with StartBalance left at its zero value.
createAccountZeroStart(startBalance) ==
    Account(fToMoney(startBalance), 0, << >>)

createAccount(startBalance) ==
    LET balance == fToMoney(startBalance)
    IN  Account(balance, balance, << >>)

\* makeTransaction that records the transaction but leaves account.Balance.
makeTransactionKeepsBalance(acct, income, expense, ts) ==
    LET newBalance == Wrap(Wrap(income + acct.Balance) - expense)
    IN  [account |-> Account(acct.Balance, acct.StartBalance,
                             Append(acct.Transactions,
                                    Transaction(ts, income, expense, newBalance))),
         ret |-> newBalance]

\* makeTransaction that records nothing for a call that moves no money.
makeTransactionSkipsZero(acct, income, expense, ts) ==
    LET newBalance == Wrap(Wrap(income + acct.Balance) - expense)
    IN  [account |-> Account(newBalance, acct.StartBalance,
                             IF income = 0 /\ expense = 0 THEN acct.Transactions
                             ELSE Append(acct.Transactions,
                                         Transaction(ts, income, expense, newBalance))),
         ret |-> newBalance]

\* makeTransaction that puts the new transaction first.
makeTransactionPrepends(acct, income, expense, ts) ==
    LET newBalance == Wrap(Wrap(income + acct.Balance) - expense)
    IN  [account |-> Account(newBalance, acct.StartBalance,
                             << Transaction(ts, income, expense, newBalance) >>
                             \o acct.Transactions),
         ret |-> newBalance]

\* makeTransaction at wall-clock time ts: the account after the call and the
\* value returned.
makeTransaction(acct, income, expense, ts) ==
    LET newBalance == Wrap(Wrap(income + acct.Balance) - expense)
    IN  [account |-> Account(newBalance, acct.StartBalance,
                             Append(acct.Transactions,
                                    Transaction(ts, income, expense, newBalance))),
         ret |-> newBalance]

deposit(acct, amount, ts) == makeTransaction(acct, amount, 0, ts)

\* withdraw that passes its amount as income.
withdrawAsIncome(acct, amount, ts) == makeTransaction(acct, amount, 0, ts)

withdraw(acct, amount, ts) == makeTransaction(acct, 0, amount, ts)

\* -------------------------------------------------------------- JSON tokens

Tok(k, s, n) == [k |-> k, s |-> s, n |-> n]
LBrace == Tok("{", "", 0)
RBrace == Tok("}", "", 0)
LBracket == Tok("[", "", 0)
RBracket == Tok("]", "", 0)
Comma == Tok(",", "", 0)
\* An object key with its colon.
Key(name) == Tok("key", name, 0)
\* An integer literal.
IntTok(n) == Tok("int", "", n)
\* A number literal with a fraction, such as 0.00.
FracTok(s) == Tok("frac", s, 0)
\* Text that starts no JSON value.
BadTok(s) == Tok("bad", s, 0)

\* --------------------------------------------------------------- json.Marshal

\* Transaction marshalled without its timestamp.
MarshalTransactionNoTimestamp(t) ==
    << LBrace, Key("income"), IntTok(t.Income), Comma,
       Key("expense"), IntTok(t.Expense), Comma,
       Key("balance"), IntTok(t.Balance), RBrace >>

MarshalTransaction(t) ==
    << LBrace, Key("timestamp"), IntTok(t.Timestamp), Comma,
       Key("income"), IntTok(t.Income), Comma,
       Key("expense"), IntTok(t.Expense), Comma,
       Key("balance"), IntTok(t.Balance), RBrace >>

RECURSIVE MarshalElements(_)
MarshalElements(txs) ==
    IF txs = << >> THEN << >>
    ELSE IF Len(txs) = 1 THEN MarshalTransaction(Head(txs))
    ELSE MarshalTransaction(Head(txs)) \o << Comma >> \o MarshalElements(Tail(txs))

\* json.Marshal(account): the struct's fields in declaration order under
\* their json tags.
Marshal(acct) ==
    << LBrace, Key("balance"), IntTok(acct.Balance), Comma,
       Key("startBalance"), IntTok(acct.StartBalance), Comma,
       Key("transactions"), LBracket >>
    \o MarshalElements(acct.Transactions) \o << RBracket, RBrace >>

\* ------------------------------------------------------------- json.Unmarshal

\* The scanner is a pushdown automaton: the stack of open containers and
\* what may come next.
ScanStart == [stack |-> << >>, expect |-> "value"]

\* The scanner after a complete value.
ScanAfterValue(stack) ==
    [stack |-> stack, expect |-> IF stack = << >> THEN "end" ELSE "commaOrEnd"]

ScanPop(stack) == SubSeq(stack, 1, Len(stack) - 1)

ScanTop(stack) == IF stack = << >> THEN "none" ELSE stack[Len(stack)]

ScanError == [stack |-> << >>, expect |-> "error"]

\* One token read in scanner state s.
ScanStep(s, tok) ==
    IF tok.k \in {"int", "frac"} /\ s.expect \in {"value", "valueOrEnd"}
    THEN ScanAfterValue(s.stack)
    ELSE IF tok.k = "{" /\ s.expect \in {"value", "valueOrEnd"}
    THEN [stack |-> Append(s.stack, "object"), expect |-> "keyOrEnd"]
    ELSE IF tok.k = "[" /\ s.expect \in {"value", "valueOrEnd"}
    THEN [stack |-> Append(s.stack, "array"), expect |-> "valueOrEnd"]
    ELSE IF tok.k = "key" /\ s.expect \in {"key", "keyOrEnd"}
    THEN [stack |-> s.stack, expect |-> "value"]
    ELSE IF tok.k = "," /\ s.expect = "commaOrEnd"
    THEN [stack |-> s.stack,
          expect |-> IF ScanTop(s.stack) = "object" THEN "key" ELSE "value"]
    ELSE IF /\ tok.k = "}"
            /\ \/ s.expect = "keyOrEnd"
               \/ s.expect = "commaOrEnd" /\ ScanTop(s.stack) = "object"
    THEN ScanAfterValue(ScanPop(s.stack))
    ELSE IF /\ tok.k = "]"
            /\ \/ s.expect = "valueOrEnd"
               \/ s.expect = "commaOrEnd" /\ ScanTop(s.stack) = "array"
    THEN ScanAfterValue(ScanPop(s.stack))
    ELSE ScanError

\* The scanner run over the input from token i; it stops at the first error.
RECURSIVE Scan(_, _, _)
Scan(data, i, s) ==
    IF i > Len(data) \/ s.expect = "error" THEN s
    ELSE Scan(data, i + 1, ScanStep(s, data[i]))

\* Unmarshal first checks that the input is exactly one well-formed value.
checkValid(data) == Scan(data, 1, ScanStart).expect = "end"

\* Unmarshal records the earliest type error and goes on decoding.
saveError(err, e) == IF err = "nil" THEN e ELSE err

\* The decoder's state on entry: the account decoded into, the error saved
\* so far, the place in the document (at), the key just read (field), the
\* depth inside a value that is being skipped (skip), the slice
\* account.Transactions held before its array began (old) and the element
\* being decoded (tx).
DecodeStart(acct) ==
    [account |-> acct, err |-> "nil", at |-> "start", field |-> "", skip |-> 0,
     old |-> << >>, tx |-> ZeroTransaction]

\* An integer literal stored into an int64 field; anything else is a type
\* error and the field keeps its value.
StoreInt(tok) == tok.k = "int" /\ tok.n \in Money

\* The names of the int64 fields of Account and of Transaction.
AccountInts == {"balance", "startBalance"}
TransactionInts == {"timestamp", "income", "expense", "balance"}

SetAccountInt(acct, field, n) ==
    IF field = "balance" THEN [acct EXCEPT !.Balance = n]
    ELSE [acct EXCEPT !.StartBalance = n]

SetTransactionInt(tx, field, n) ==
    IF field = "timestamp" THEN [tx EXCEPT !.Timestamp = n]
    ELSE IF field = "income" THEN [tx EXCEPT !.Income = n]
    ELSE IF field = "expense" THEN [tx EXCEPT !.Expense = n]
    ELSE [tx EXCEPT !.Balance = n]

\* Element n of the array is decoded into the element the slice already
\* has at n, or into a zero Transaction where it has none.
ElementBase(d) ==
    LET n == Len(d.account.Transactions) + 1
    IN  IF n <= Len(d.old) THEN d.old[n] ELSE ZeroTransaction

AppendElement(d, tx) ==
    [d.account EXCEPT !.Transactions = Append(d.account.Transactions, tx)]

\* The value of the top-level document.
DecodeTop(d, tok) ==
    IF tok.k = "{" THEN [d EXCEPT !.at = "account"]
    ELSE [d EXCEPT !.at = "done",
                   !.err = saveError(d.err, "UnmarshalTypeError"),
                   !.skip = IF tok.k = "[" THEN 1 ELSE 0]

\* The value of a member of the account object, after its key d.field.
DecodeAccountValue(d, tok) ==
    IF d.field \in AccountInts
    THEN IF StoreInt(tok)
         THEN [d EXCEPT !.at = "account",
                        !.account = SetAccountInt(d.account, d.field, tok.n)]
         ELSE [d EXCEPT !.at = "account",
                        !.err = saveError(d.err, "UnmarshalTypeError"),
                        !.skip = IF tok.k \in {"{", "["} THEN 1 ELSE 0]
    ELSE IF d.field = "transactions"
    THEN IF tok.k = "["
         THEN [d EXCEPT !.at = "transactions",
                        !.old = d.account.Transactions,
                        !.account = [d.account EXCEPT !.Transactions = << >>]]
         ELSE [d EXCEPT !.at = "account",
                        !.err = saveError(d.err, "UnmarshalTypeError"),
                        !.skip = IF tok.k = "{" THEN 1 ELSE 0]
    ELSE [d EXCEPT !.at = "account",
                   !.skip = IF tok.k \in {"{", "["} THEN 1 ELSE 0]

\* An element of the transactions array, or its end.
DecodeElement(d, tok) ==
    IF tok.k = "]" THEN [d EXCEPT !.at = "account", !.old = << >>]
    ELSE IF tok.k = "," THEN d
    ELSE IF tok.k = "{" THEN [d EXCEPT !.at = "transaction", !.tx = ElementBase(d)]
    ELSE [d EXCEPT !.account = AppendElement(d, ElementBase(d)),
                   !.err = saveError(d.err, "UnmarshalTypeError"),
                   !.skip = IF tok.k = "[" THEN 1 ELSE 0]

\* The value of a member of a transaction object, after its key d.field.
DecodeTransactionValue(d, tok) ==
    IF d.field \in TransactionInts
    THEN IF StoreInt(tok)
         THEN [d EXCEPT !.at = "transaction",
                        !.tx = SetTransactionInt(d.tx, d.field, tok.n)]
         ELSE [d EXCEPT !.at = "transaction",
                        !.err = saveError(d.err, "UnmarshalTypeError"),
                        !.skip = IF tok.k \in {"{", "["} THEN 1 ELSE 0]
    ELSE [d EXCEPT !.at = "transaction",
                   !.skip = IF tok.k \in {"{", "["} THEN 1 ELSE 0]

\* One token of a well-formed document read in decoder state d.
DecodeStep(d, tok) ==
    IF d.skip > 0
    THEN [d EXCEPT !.skip = IF tok.k \in {"{", "["} THEN d.skip + 1
                            ELSE IF tok.k \in {"}", "]"} THEN d.skip - 1
                            ELSE d.skip]
    ELSE IF d.at = "start" THEN DecodeTop(d, tok)
    ELSE IF d.at = "account"
    THEN IF tok.k = "key" THEN [d EXCEPT !.at = "accountValue", !.field = tok.s]
         ELSE IF tok.k = "}" THEN [d EXCEPT !.at = "done"]
         ELSE d
    ELSE IF d.at = "accountValue" THEN DecodeAccountValue(d, tok)
    ELSE IF d.at = "transactions" THEN DecodeElement(d, tok)
    ELSE IF d.at = "transaction"
    THEN IF tok.k = "key" THEN [d EXCEPT !.at = "transactionValue", !.field = tok.s]
         ELSE IF tok.k = "}"
         THEN [d EXCEPT !.at = "transactions", !.account = AppendElement(d, d.tx)]
         ELSE d
    ELSE IF d.at = "transactionValue" THEN DecodeTransactionValue(d, tok)
    ELSE d

\* The decoder run over a well-formed input from token i, to the end of the
\* top-level value.
RECURSIVE Decode(_, _, _)
Decode(data, i, d) ==
    IF i > Len(data) \/ d.at = "done" THEN d
    ELSE Decode(data, i + 1, DecodeStep(d, data[i]))

\* What Unmarshal leaves and returns once the decoder has ended in state d.
Decoded(d) == [account |-> d.account, err |-> d.err]

\* json.Unmarshal(data, &account): the account afterwards and the error.
\* A syntax error is found before anything is stored; a type error is not.
Unmarshal(data, acct) ==
    IF ~ checkValid(data) THEN [account |-> acct, err |-> "SyntaxError"]
    ELSE Decoded(Decode(data, 1, DecodeStart(acct)))

\* -------------------------------------------------------------------- files

\* A path that names no file.
NoFile == [exists |-> FALSE, data |-> << >>]

File(data) == [exists |-> TRUE, data |-> data]

\* The file initializeWorkspace writes for the default account.
DefaultAccountFile == File(Marshal(createAccount(0)))

\* { "startBalance": 0.00, "balance": 0.00, "transactions": [] }
SampleAccountFile ==
    File(<< LBrace, Key("startBalance"), FracTok("0.00"), Comma,
            Key("balance"), FracTok("0.00"), Comma,
            Key("transactions"), LBracket, RBracket, RBrace >>)

\* A file that holds the text: not json
NotJsonFile == File(<< BadTok("not"), BadTok("json") >>)

\* The file an earlier run left: the default account after one deposit.
EarlierRunAccount == deposit(createAccount(0), MaxAmount, MaxTime).account
EarlierRunFile == File(Marshal(EarlierRunAccount))

\* What the path may hold before the program first touches it.
InitialFiles ==
    {NoFile, DefaultAccountFile, EarlierRunFile, SampleAccountFile, NotJsonFile}

\* How many tokens a failing write may have put into the truncated file.
WrittenCounts(data) == {0, Len(data) - 1}

\* ioutil.WriteFile(name, data, 0644): open with O_TRUNC, write, close.
\* fault is where it fails: "open" before the file is touched, "write" after
\* the truncation with only the first k tokens written, "none" nowhere.
WriteFile(file, data, fault, k) ==
    IF fault = "open" THEN [disk |-> file, err |-> "PathError"]
    ELSE IF fault = "write"
         THEN [disk |-> File(SubSeq(data, 1, k)), err |-> "PathError"]
    ELSE [disk |-> File(data), err |-> "nil"]

\* saveToFile: json.Marshal never fails on an Account.
saveToFile(acct, file, fault, k) == WriteFile(file, Marshal(acct), fault, k)

\* readFromFile: the account afterwards and the error returned.
readFromFile(acct, file) ==
    IF ~ file.exists THEN [account |-> acct, err |-> "PathError"]
    ELSE Unmarshal(file.data, acct)

\* -------------------------------------------------------------------- state

VARIABLES
    account,    \* the Account value
    created,    \* whether createAccount has returned it
    disk,       \* what the account's file path holds
    now,        \* the wall clock as last read by time.Now().Unix()
    last,       \* the last call made: its name, argument, error and return value
    calls,      \* the number of deposit / withdraw calls made since creation
    saved       \* the account a successful saveToFile left in the file, if any

vars == << account, created, disk, now, last, calls, saved >>

\* The arguments of createAccount (f * 100 in tenths of a cent): a negative
\* amount with a fraction, zero, and the largest Money with a fraction.
StartBalances == {-15, 0, 10 * MoneyMax + 9}

\* The arguments of deposit and withdraw: a negative amount, zero
\* and a positive amount.
Amounts == {-1, 0, MaxAmount}

\* What time.Now().Unix() may return: the clock does not run backwards.
Times == now .. MaxTime

Call(op, arg, err, ret) == [op |-> op, arg |-> arg, err |-> err, ret |-> ret]

NotSaved == [valid |-> FALSE, acct |-> ZeroAccount]

Saved(acct) == [valid |-> TRUE, acct |-> acct]

Init ==
    /\ account = ZeroAccount
    /\ created = FALSE
    /\ disk \in InitialFiles
    /\ now = 0
    /\ last = Call("none", 0, "nil", 0)
    /\ calls = 0
    /\ saved = IF disk = DefaultAccountFile THEN Saved(createAccount(0))
               ELSE IF disk = EarlierRunFile THEN Saved(EarlierRunAccount)
               ELSE NotSaved

CreateAccount(f) ==
    /\ ~ created
    /\ account' = createAccount(f)
    /\ created' = TRUE
    /\ last' = Call("createAccount", f, "nil", 0)
    /\ UNCHANGED << disk, now, calls, saved >>

Deposit(amount, ts) ==
    /\ created
    /\ calls < MaxTx
    /\ now' = ts
    /\ \E r \in {deposit(account, amount, ts)} :
           /\ account' = r.account
           /\ last' = Call("deposit", amount, "nil", r.ret)
    /\ calls' = calls + 1
    /\ UNCHANGED << created, disk, saved >>

Withdraw(amount, ts) ==
    /\ created
    /\ calls < MaxTx
    /\ now' = ts
    /\ \E r \in {withdraw(account, amount, ts)} :
           /\ account' = r.account
           /\ last' = Call("withdraw", amount, "nil", r.ret)
    /\ calls' = calls + 1
    /\ UNCHANGED << created, disk, saved >>

SaveToFile(fault, k) ==
    /\ created
    /\ \E r \in {saveToFile(account, disk, fault, k)} :
           /\ disk' = r.disk
           /\ last' = Call("saveToFile", 0, r.err, 0)
           /\ saved' = IF r.err = "nil" THEN Saved(account)
                       ELSE IF r.disk = disk THEN saved
                       ELSE NotSaved
    /\ UNCHANGED << account, created, now, calls >>

ReadFromFile ==
    /\ created
    /\ \E r \in {readFromFile(account, disk)} :
           /\ account' = r.account
           /\ last' = Call("readFromFile", 0, r.err, 0)
    /\ UNCHANGED << created, disk, now, calls, saved >>

Next ==
    \/ \E f \in StartBalances : CreateAccount(f)
    \/ \E amount \in Amounts, ts \in Times : Deposit(amount, ts)
    \/ \E amount \in Amounts, ts \in Times : Withdraw(amount, ts)
    \/ SaveToFile("none", 0)
    \/ SaveToFile("open", 0)
    \/ \E k \in WrittenCounts(Marshal(account)) : SaveToFile("write", k)
    \/ ReadFromFile

Spec == Init /\ [][Next]_vars

\* The runs in which the account is never loaded from a file: createAccount,
\* then deposit, withdraw and saveToFile calls only.
NextLedger ==
    \/ \E f \in StartBalances : CreateAccount(f)
    \/ \E amount \in Amounts, ts \in Times : Deposit(amount, ts)
    \/ \E amount \in Amounts, ts \in Times : Withdraw(amount, ts)
    \/ SaveToFile("none", 0)
    \/ SaveToFile("open", 0)
    \/ \E k \in WrittenCounts(Marshal(account)) : SaveToFile("write", k)

SpecLedger == Init /\ [][NextLedger]_vars

\* ------------------------------------------------------------- the claims

\* Every action records its own name in last, so on a step of Next last'.op
\* names the call that the step makes.
CallStep(ops) == last'.op \in ops

RECURSIVE SumIncome(_)
SumIncome(txs) ==
    IF txs = << >> THEN 0 ELSE Head(txs).Income + SumIncome(Tail(txs))

RECURSIVE SumExpense(_)
SumExpense(txs) ==
    IF txs = << >> THEN 0 ELSE Head(txs).Expense + SumExpense(Tail(txs))

\* C1: in a run of createAccount followed by deposit / withdraw calls, the
\* balance after each call is the start balance plus all incomes minus all
\* expenses recorded so far (in Money arithmetic, as the program computes it).
C1_BalanceIsStartPlusIncomeMinusExpense ==
    created =>
        account.Balance =
            Wrap(account.StartBalance + SumIncome(account.Transactions)
                 - SumExpense(account.Transactions))

\* Two calls with non-negative amounts, a deposit and a withdrawal, were made.
C1_Witness ==
    /\ Len(account.Transactions) = 2
    /\ \A i \in 1 .. 2 : /\ account.Transactions[i].Income >= 0
                         /\ account.Transactions[i].Expense >= 0
    /\ \E i \in 1 .. 2 : account.Transactions[i].Income > 0
    /\ \E i \in 1 .. 2 : account.Transactions[i].Expense > 0
    /\ account.Transactions[1].Balance # account.StartBalance

\* The balance a transaction starts from: its predecessor's, or the start
\* balance for the first.
BalanceBefore(acct, i) ==
    IF i = 1 THEN acct.StartBalance ELSE acct.Transactions[i - 1].Balance

\* C2: in every reachable state every transaction's balance is its
\* predecessor's balance plus its income minus its expense, the first
\* transaction's predecessor balance being the start balance.
C2_BalanceChain ==
    \A i \in 1 .. Len(account.Transactions) :
        account.Transactions[i].Balance =
            Wrap(BalanceBefore(account, i) + account.Transactions[i].Income
                 - account.Transactions[i].Expense)

\* A history of two transactions that both moved the balance.
C2_Witness ==
    /\ Len(account.Transactions) >= 2
    /\ account.Transactions[1].Balance # account.StartBalance
    /\ account.Transactions[2].Balance # account.Transactions[1].Balance

\* C3: a deposit or withdraw call with a negative amount fails with
\* InvalidAmount, changes no balance and appends no transaction.
C3_NegativeAmountRejected ==
    [][\A amount \in Amounts, ts \in Times :
          (amount < 0 /\ (Deposit(amount, ts) \/ Withdraw(amount, ts)))
              => (last'.err = "InvalidAmount" /\ account' = account)]_vars

\* C4: loading a file that saveToFile wrote yields the account that was
\* saved (balance, start balance, the transactions in order with their
\* timestamps), whatever the account held before the load.
C4_RoundTrip ==
    (last.op = "readFromFile" /\ saved.valid)
        => (last.err = "nil" /\ account = saved.acct)

\* A saved account with a transaction was loaded into an account on which
\* more calls had been made than the loaded history holds.
C4_Witness ==
    /\ last.op = "readFromFile"
    /\ saved.valid
    /\ last.err = "nil"
    /\ account = saved.acct
    /\ Len(account.Transactions) >= 1
    /\ \E i \in 1 .. Len(account.Transactions) : account.Transactions[i].Timestamp > 0
    /\ calls > Len(account.Transactions)

\* C5: a readFromFile that returns an error leaves the account as it was.
C5_FailedLoadLeavesAccount ==
    [][(CallStep({"readFromFile"}) /\ last'.err # "nil")
          => account' = account]_vars

\* C6: a saveToFile that fails over a file holding a saved account leaves
\* that file as it was.
C6_FailedSaveKeepsFile ==
    [][(CallStep({"saveToFile"}) /\ last'.err # "nil" /\ saved.valid)
          => disk' = disk]_vars

\* C7 as stated: the number of transactions is the number of deposit /
\* withdraw calls made since creation, whatever else was called.
C7_LengthIsCalls == Len(account.Transactions) = calls

\* C7 amended: the account is created with no transaction, each deposit or
\* withdraw call appends exactly one, and on every step but readFromFile the
\* history grows by exactly the calls made.
C7_LengthFollowsCalls ==
    [][/\ CallStep({"createAccount"}) => Len(account'.Transactions) = 0
       /\ CallStep({"deposit", "withdraw"})
              => /\ Len(account'.Transactions) = Len(account.Transactions) + 1
                 /\ calls' = calls + 1
       /\ ~ CallStep({"readFromFile"})
              => Len(account'.Transactions) - Len(account.Transactions)
                     = calls' - calls]_vars

\* Two calls were made and both are in the history.
C7_Witness ==
    /\ last.op \in {"deposit", "withdraw"}
    /\ calls = 2
    /\ Len(account.Transactions) = 2

\* C8 as stated: after creation no operation changes StartBalance.
C8_StartBalanceNeverChanges ==
    [][created => account'.StartBalance = account.StartBalance]_vars

\* C8 amended: createAccount sets Balance = StartBalance with no transaction;
\* deposit, withdraw and saveToFile leave StartBalance alone; readFromFile
\* of a file that saveToFile wrote sets it to the saved account's.
C8_StartBalanceSetAtCreationAndLoad ==
    [][/\ CallStep({"createAccount"})
              => /\ account'.Balance = account'.StartBalance
                 /\ account'.Transactions = << >>
       /\ CallStep({"deposit", "withdraw", "saveToFile"})
              => account'.StartBalance = account.StartBalance
       /\ (CallStep({"readFromFile"}) /\ saved.valid)
              => account'.StartBalance = saved.acct.StartBalance]_vars

\* An account created with a non-zero start balance has been through
\* deposit / withdraw and saveToFile calls and then a readFromFile of the file
\* it saved: StartBalance is the saved account's, the one set at creation.
C8_Witness ==
    /\ created
    /\ last.op = "readFromFile"
    /\ last.err = "nil"
    /\ saved.valid
    /\ account.StartBalance # 0
    /\ account.StartBalance = saved.acct.StartBalance
    /\ Len(account.Transactions) >= 1
    /\ calls > Len(account.Transactions)

\* C9: deposit(amount), amount >= 0, adds amount to the balance, appends a
\* transaction with Income = amount, Expense = 0 and the new balance, and
\* returns the new balance; withdraw is symmetric with Expense = amount, and
\* no balance disables it, so the balance may become negative.
C9_DepositWithdrawEffect ==
    /\ [][\A amount \in Amounts, ts \in Times :
            /\ (amount >= 0 /\ Deposit(amount, ts))
                  => /\ account'.Balance = Wrap(account.Balance + amount)
                     /\ account'.Transactions =
                            Append(account.Transactions,
                                   [Timestamp |-> ts, Income |-> amount,
                                    Expense |-> 0, Balance |-> account'.Balance])
                     /\ last'.ret = account'.Balance
            /\ (amount >= 0 /\ Withdraw(amount, ts))
                  => /\ account'.Balance = Wrap(account.Balance - amount)
                     /\ account'.Transactions =
                            Append(account.Transactions,
                                   [Timestamp |-> ts, Income |-> 0,
                                    Expense |-> amount, Balance |-> account'.Balance])
                     /\ last'.ret = account'.Balance]_vars
    /\ []((created /\ calls < MaxTx)
              => \A amount \in Amounts, ts \in Times :
                     ENABLED Withdraw(amount, ts))

\* A withdrawal of a positive amount has overdrawn the account.
C9_Witness ==
    /\ last.op = "withdraw"
    /\ last.arg > 0
    /\ account.Balance < 0
    /\ account.Balance = account.StartBalance - last.arg
    /\ last.ret = account.Balance

\* C10: the history before a deposit or withdraw call is an unchanged
\* prefix of the history after it.
C10_HistoryIsAppendOnly ==
    [][CallStep({"deposit", "withdraw"})
          => /\ Len(account'.Transactions) > Len(account.Transactions)
             /\ SubSeq(account'.Transactions, 1, Len(account.Transactions))
                    = account.Transactions]_vars

\* A call was made on an account whose history already held a transaction.
C10_Witness ==
    /\ last.op \in {"deposit", "withdraw"}
    /\ Len(account.Transactions) = 2
    /\ account.Transactions[1] # account.Transactions[2]

=============================================================================
